---- MODULE Spec2Model ----
(***************************************************************************)
(* Model of the IPC dispatch layer (resources/lib/common/ipc.py) and of    *)
(* the session access state machine                                        *)
(* (resources/lib/services/nfsession/session/access.py).                   *)
(*                                                                         *)
(* Spec         one IPC exchange after another: make_call, the callee      *)
(*              side Return-Call Adapter, the caller side error mapping.   *)
(* SessionSpec  login / logout / guarded requests on the session.          *)
(***************************************************************************)
EXTENDS Integers, Sequences, FiniteSets, TLC

\* Scalars carried as payloads and results range over 0..MaxInt.
MaxInt == 1

(***************************************************************************)
(* Python values that cross the IPC boundary.  Every value is a record of  *)
(* the same shape: t is the Python type, n the number a scalar / tuple /   *)
(* list holds, m the items of a dict as <<key, value>> pairs.              *)
(***************************************************************************)
None == [t |-> "none", n |-> 0, m |-> {}]

PyInt(k) == [t |-> "int", n |-> k, m |-> {}]

\* the one-element tuple (k,)
Tuple(k) == [t |-> "tuple", n |-> k, m |-> {}]

\* the one-element list [k]
List(k) == [t |-> "list", n |-> k, m |-> {}]

Dict(items) == [t |-> "dict", n |-> 0, m |-> items]

\* isinstance(v, dict)
IsDict(v) == v.t = "dict"

\* k in d
HasKey(d, k) == \E p \in d.m : p[1] = k

\* d[k]
Get(d, k) == (CHOOSE p \in d.m : p[1] = k)[2]

\* json.loads(json.dumps(v)): a tuple comes back as a list, the other
\* values of the model are JSON-native and come back equal.
json_roundtrip(v) == IF v.t = "tuple" THEN List(v.n) ELSE v

\* AddonSignals carries the data of a signal JSON-encoded as well.
AddonSignals_transfer(v) == json_roundtrip(v)

(***************************************************************************)
(* Names.                                                                  *)
(***************************************************************************)
\* the slots NetflixSession registers, each as EnvelopeIPCReturnCall(slot).call
\* under slot.__name__
CallNames == {"get_safe", "login"}

\* a method wrapped with the ipc_return_call decorator
DecoratedName == "decorated_slot"

\* the registry of remote exception kinds, resources.lib.api.exceptions
apierrors == {"CacheMiss", "NotLoggedInError", "LoginValidateError",
              "InvalidMembershipStatusError"}

\* the exception kinds a callee raises here, all deriving from Exception:
\* two registered, one not
Kinds == {"CacheMiss", "NotLoggedInError", "ValueError"}

\* unicode(exc) of the exceptions a callee raises here
Msgs == {"m1", "m2"}

\* payloads of a call: absent, single values, mappings
Payloads ==
    {None} \cup {PyInt(k) : k \in 0..MaxInt} \cup {Tuple(0)}
        \cup {Dict({}), Dict({<<"id", "a">>})}

\* values a callee returns
RetVals ==
    {None} \cup {PyInt(k) : k \in 0..MaxInt} \cup {Tuple(0), List(0)}
        \cup {Dict({}), Dict({<<"id", "a">>}), Dict({<<"error", "oops">>}),
              Dict({<<"error", "CacheMiss">>}),
              Dict({<<"error", "NotLoggedInError">>, <<"message", "m1">>})}

(***************************************************************************)
(* Outcomes of a function call: still pending, a returned value, or a      *)
(* raised exception of a kind with a message.                              *)
(***************************************************************************)
Pending == [st |-> "pending", val |-> None, kind |-> "", msg |-> ""]

Returned(v) == [st |-> "ret", val |-> v, kind |-> "", msg |-> ""]

Raised(k, msg) == [st |-> "exc", val |-> None, kind |-> k, msg |-> msg]

\* what the wrapped callee does when invoked: it returns or it raises
CalleeOutcomes ==
    {Returned(v) : v \in RetVals}
        \cup {Raised(k, msg) : k \in Kinds, msg \in Msgs}

NoCall == [shape |-> "uncalled", arg |-> None, instance |-> FALSE]

\* no request in flight
NoRequest == [callname |-> "", data |-> None, via |-> ""]

(***************************************************************************)
(* ipc.py: the callee side (Return-Call Adapter).                          *)
(***************************************************************************)
\* _call with "if data:" in place of "if data is not None:"
_call_truthy(data) ==
    IF IsDict(data) THEN [shape |-> "kwargs", arg |-> data, instance |-> FALSE]
    ELSE IF data # None /\ data # PyInt(0)
         THEN [shape |-> "positional", arg |-> data, instance |-> FALSE]
         ELSE [shape |-> "noargs", arg |-> None, instance |-> FALSE]

\* _call: a dict is expanded to named arguments, any other value that is
\* not None is the single positional argument, None invokes with no argument
_call(data) ==
    IF IsDict(data) THEN [shape |-> "kwargs", arg |-> data, instance |-> FALSE]
    ELSE IF data # None
         THEN [shape |-> "positional", arg |-> data, instance |-> FALSE]
         ELSE [shape |-> "noargs", arg |-> None, instance |-> FALSE]

\* _call_with_instance: the same with the owning object as first argument
_call_with_instance(data) ==
    IF IsDict(data) THEN [shape |-> "kwargs", arg |-> data, instance |-> TRUE]
    ELSE IF data # None
         THEN [shape |-> "positional", arg |-> data, instance |-> TRUE]
         ELSE [shape |-> "noargs", arg |-> None, instance |-> TRUE]

\* an entry of the log written with error()
ErrorLogEntry(side, what, kind) == [side |-> side, what |-> what, kind |-> kind]

\* _print_convert_exc: the envelope {error: class name, message: unicode(exc)}
_print_convert_exc(exc) ==
    Dict({<<"error", exc.kind>>, <<"message", exc.msg>>})

\* _print_convert_exc: its two error() calls, the exception and the traceback
_print_convert_exc_log(exc) ==
    {ErrorLogEntry("callee", "exception", exc.kind),
     ErrorLogEntry("callee", "traceback", exc.kind)}

\* the classes that derive from BaseException and not from Exception
BaseExceptionOnly == {"SystemExit", "KeyboardInterrupt", "GeneratorExit"}

\* a clause that names the registered kinds only
ExceptClauseCatches_registered(exc) == exc.kind \in apierrors

\* the clause "except Exception" of the adapter: the kinds it catches
ExceptClauseCatches(exc) == exc.kind \notin BaseExceptionOnly

\* _execute_addonsignals_return_call without the replacement of None by {}
_execute_addonsignals_return_call_none(result, func_name, overHttp) ==
    IF overHttp
    THEN [ret |-> Returned(result), calls |-> <<>>]
    ELSE [ret |-> Returned(result),
          calls |-> <<[signal |-> func_name, data |-> result]>>]

\* _execute_addonsignals_return_call that issues the return call whatever
\* g.IPC_OVER_HTTP is
_execute_addonsignals_return_call_always(result, func_name, overHttp) ==
    LET r == IF result = None THEN Dict({}) ELSE result
    IN  [ret |-> Returned(r),
         calls |-> <<[signal |-> func_name, data |-> r]>>]

\* _execute_addonsignals_return_call: what it returns to its invoker and the
\* AddonSignals.returnCall it issues
_execute_addonsignals_return_call(result, func_name, overHttp) ==
    IF overHttp
    THEN [ret |-> Returned(result), calls |-> <<>>]
    ELSE LET r == IF result = None THEN Dict({}) ELSE result
         IN  [ret |-> Returned(r),
              calls |-> <<[signal |-> func_name, data |-> r]>>]

\* the body shared by _ipc_return_call and _ipc_return_call_instance, given
\* what the wrapped function did: [ret, calls, logs]
AdapterBody(outcome, func_name, overHttp) ==
    IF outcome.st = "exc" /\ ~ExceptClauseCatches(outcome)
    THEN [ret |-> outcome, calls |-> <<>>, logs |-> {}]
    ELSE LET caught == outcome.st = "exc"
             result == IF caught THEN _print_convert_exc(outcome)
                       ELSE outcome.val
             sent == _execute_addonsignals_return_call(result, func_name, overHttp)
         IN  [ret |-> sent.ret, calls |-> sent.calls,
              logs |-> IF caught THEN _print_convert_exc_log(outcome) ELSE {}]

\* _ipc_return_call(func, data, func_name), func doing `outcome`
_ipc_return_call(outcome, func_name, overHttp) ==
    AdapterBody(outcome, func_name, overHttp)

\* _ipc_return_call_instance(instance, func, data), func doing `outcome`
_ipc_return_call_instance(outcome, func_name, overHttp) ==
    AdapterBody(outcome, func_name, overHttp)

\* make_return_call of the ipc_return_call decorator: it calls
\* _ipc_return_call_instance and has no return statement
make_return_call(adapterRet) ==
    IF adapterRet.st = "exc" THEN adapterRet ELSE Returned(None)

(***************************************************************************)
(* ipc.py: the caller side.                                                *)
(***************************************************************************)
\* _raise_for_error without the lookup in the registry
_raise_for_error_generic(callname, result) ==
    IF IsDict(result) /\ HasKey(result, "error")
    THEN [out |-> Raised("Exception", Get(result, "error")), logs |-> {}]
    ELSE [out |-> Pending, logs |-> {}]

\* _raise_for_error: [out, logs].  A dict with the key error is raised: as
\* the registered kind with the message, or, when looking up the kind or the
\* message raises KeyError, as Exception(result['error']).  error() is
\* reached only when the kind is not CacheMiss and format() found its keys.
_raise_for_error(callname, result) ==
    IF IsDict(result) /\ HasKey(result, "error")
    THEN LET e == Get(result, "error")
             hasMsg == HasKey(result, "message")
             logs == IF e # "CacheMiss" /\ hasMsg
                     THEN {ErrorLogEntry("caller", "returned", e)}
                     ELSE {}
         IN  IF hasMsg /\ e \in apierrors
             THEN [out |-> Raised(e, Get(result, "message")), logs |-> logs]
             ELSE [out |-> Raised("Exception", e), logs |-> logs]
    ELSE [out |-> Pending, logs |-> {}]

\* make_http_call after urlopen answered with the body `response`; an answer
\* with an HTTP error status is decoded from exc.reason and treated alike
make_http_call(callname, response) ==
    LET result == response
        chk == _raise_for_error(callname, result)
    IN  IF chk.out.st = "exc" THEN chk
        ELSE [out |-> Returned(result), logs |-> {}]

\* make_addonsignals_call that takes a missing reply for a backend that is
\* not ready
make_addonsignals_call_not_ready(callname, result) ==
    LET chk == _raise_for_error(callname, result)
    IN  IF chk.out.st = "exc" THEN chk
        ELSE IF result = None
             THEN [out |-> Raised("BackendNotReady", "Addon Signals call timeout"),
                   logs |-> {}]
             ELSE [out |-> Returned(result), logs |-> {}]

\* make_addonsignals_call without the check for None
make_addonsignals_call_no_check(callname, result) ==
    LET chk == _raise_for_error(callname, result)
    IN  IF chk.out.st = "exc" THEN chk
        ELSE [out |-> Returned(result), logs |-> {}]

\* make_addonsignals_call after AddonSignals.makeCall returned `result`
make_addonsignals_call(callname, result) ==
    LET chk == _raise_for_error(callname, result)
    IN  IF chk.out.st = "exc" THEN chk
        ELSE IF result = None
             THEN [out |-> Raised("Exception", "Addon Signals call timeout"),
                   logs |-> {}]
             ELSE [out |-> Returned(result), logs |-> {}]

\* AddonSignals.makeCall: the data of the return call tagged with the name
\* of the call; None when none arrived before the timeout.  It keeps
\* waiting while the data is None.
AddonSignals_makeCall(callname, calls) ==
    LET mine == SelectSeq(calls, LAMBDA c : c.signal = callname)
    IN  IF mine = <<>> THEN None ELSE AddonSignals_transfer(mine[1].data)

\* the HTTP layer of the service: the body of the response is the JSON text
\* of what the slot returned
HttpLayerResponse(slotRet) ==
    IF slotRet.st = "ret"
    THEN [present |-> TRUE, body |-> json_roundtrip(slotRet.val)]
    ELSE [present |-> FALSE, body |-> None]

NoResponse == [present |-> FALSE, body |-> None]

(***************************************************************************)
(* State of the IPC layer.                                                 *)
(***************************************************************************)
VARIABLES
    IPC_OVER_HTTP,   \* g.IPC_OVER_HTTP in the process of the caller
    SERVICE_IPC_OVER_HTTP, \* g.IPC_OVER_HTTP in the process of the service
    serviceUp,       \* the background service runs and its slots are registered
    pc,              \* position of the exchange
    request,         \* the call in flight: callname, data, transport
    nativeCall,      \* how the wrapped function was invoked
    calleeOutcome,   \* what the wrapped function did
    adapterReturn,   \* what the adapter function returned to its invoker
    slotReturn,      \* what the registered callable returned to its invoker
    returnCalls,     \* AddonSignals.returnCall issued, in order
    httpResponse,    \* body written by the HTTP layer
    callerOutcome,   \* what make_call did for its caller
    errorLog,        \* entries written with error() during the exchange
    timedOut         \* the caller waited for the whole timeout

VARIABLES
    connected,       \* common.is_internet_connected()
    cookieJar,       \* self.session.cookies, the in-memory cookie jar
    storedCookies,   \* the cookie record on disk under the account hash
    esn,             \* the device identifier, g.get_esn()
    credentials,     \* the stored credentials
    sessionOp,       \* the session operation that ran last and how it ended
    uiShown,         \* notifications and dialogs it showed
    requests,        \* requests it performed against the remote backend
    signalsSent,     \* signals it sent with send_signal
    derivedKinds,    \* LoginValidateErrorIncorrectPassword and
                     \* InvalidMembershipStatusAnonymous derive from
                     \* LoginValidateError and InvalidMembershipStatusError
    is_prefetch_login, \* self.is_prefetch_login
    history          \* what the operations so far did: a get_safe was
                     \* served; logout() completed and no login has
                     \* succeeded since

VARIABLES
    slots,           \* the slots registered with AddonSignals
    slotOp,          \* the registry operation that ran last
    issued,          \* the signals send_signal was called with, in order
    workers,         \* emissions handed to a thread that has not sent yet
    bus              \* the signals AddonSignals.sendSignal was called with

busVars == <<slots, slotOp, issued, workers, bus>>

sessionVars ==
    <<connected, cookieJar, storedCookies, esn, credentials, sessionOp,
      uiShown, requests, signalsSent, derivedKinds, is_prefetch_login,
      history>>

ipcVars ==
    <<IPC_OVER_HTTP, SERVICE_IPC_OVER_HTTP, serviceUp, pc, request, nativeCall, calleeOutcome,
      adapterReturn, slotReturn, returnCalls, httpResponse, callerOutcome,
      errorLog, timedOut>>

\* the exchange variables between two exchanges
ExchangeCleared ==
    /\ request = NoRequest
    /\ nativeCall = NoCall
    /\ calleeOutcome = Pending
    /\ adapterReturn = Pending
    /\ slotReturn = Pending
    /\ returnCalls = <<>>
    /\ httpResponse = NoResponse
    /\ callerOutcome = Pending
    /\ errorLog = {}
    /\ timedOut = FALSE

IPCInit ==
    /\ IPC_OVER_HTTP \in BOOLEAN
    /\ SERVICE_IPC_OVER_HTTP = IPC_OVER_HTTP
    /\ serviceUp \in BOOLEAN
    /\ pc = "idle"
    /\ ExchangeCleared

\* make_call: the transport is chosen from g.IPC_OVER_HTTP, once per call
MakeCall(callname, data) ==
    /\ UNCHANGED <<sessionVars, busVars>>
    /\ pc = "idle"
    /\ request' = [callname |-> callname, data |-> data,
                   via |-> IF IPC_OVER_HTTP THEN "http" ELSE "signal"]
    /\ pc' = "sent"
    /\ UNCHANGED <<IPC_OVER_HTTP, SERVICE_IPC_OVER_HTTP, serviceUp, nativeCall, calleeOutcome,
                   adapterReturn, slotReturn, returnCalls, httpResponse,
                   callerOutcome, errorLog, timedOut>>

\* make_http_call: urlopen raises URLError, the service is not listening
HttpUnreachable ==
    /\ UNCHANGED <<sessionVars, busVars>>
    /\ pc = "sent"
    /\ request.via = "http"
    /\ ~serviceUp
    /\ callerOutcome' = Raised("BackendNotReady", "URLError")
    /\ errorLog' = errorLog \cup {ErrorLogEntry("caller", "urlerror", "URLError")}
    /\ pc' = "done"
    /\ UNCHANGED <<IPC_OVER_HTTP, SERVICE_IPC_OVER_HTTP, serviceUp, request, nativeCall, calleeOutcome,
                   adapterReturn, slotReturn, returnCalls, httpResponse, timedOut>>

\* EnvelopeIPCReturnCall.call(data) of the slot named by the request: the
\* wrapped function does `outcome`; over HTTP the HTTP layer writes what the
\* slot returned as the JSON body of the response
CalleeHandle(outcome) ==
    /\ UNCHANGED <<sessionVars, busVars>>
    /\ pc = "sent"
    /\ serviceUp
    /\ LET data == IF request.via = "http" THEN json_roundtrip(request.data)
                   ELSE AddonSignals_transfer(request.data)
           a == _ipc_return_call(outcome, request.callname,
                                 SERVICE_IPC_OVER_HTTP)
       IN  /\ nativeCall' = _call(data)
           /\ calleeOutcome' = outcome
           /\ adapterReturn' = a.ret
           /\ slotReturn' = a.ret
           /\ returnCalls' = a.calls
           /\ errorLog' = errorLog \cup a.logs
           /\ httpResponse' =
                 IF request.via = "http" THEN HttpLayerResponse(a.ret)
                 ELSE NoResponse
    /\ pc' = "handled"
    /\ UNCHANGED <<IPC_OVER_HTTP, SERVICE_IPC_OVER_HTTP, serviceUp, request, callerOutcome, timedOut>>

\* make_http_call: the response is decoded, checked for an error envelope
\* and returned
HttpReceive ==
    /\ UNCHANGED <<sessionVars, busVars>>
    /\ pc = "handled"
    /\ request.via = "http"
    /\ httpResponse.present
    /\ LET r == make_http_call(request.callname, httpResponse.body)
       IN  /\ callerOutcome' = r.out
           /\ errorLog' = errorLog \cup r.logs
    /\ pc' = "done"
    /\ UNCHANGED <<IPC_OVER_HTTP, SERVICE_IPC_OVER_HTTP, serviceUp, request, nativeCall, calleeOutcome,
                   adapterReturn, slotReturn, returnCalls, httpResponse, timedOut>>

\* make_addonsignals_call: sendSignal blocks until the slot has run, so the
\* wait ends with the return call the slot issued, or, with no slot or no
\* return call, with the timeout
SignalReceive ==
    /\ UNCHANGED <<sessionVars, busVars>>
    /\ request.via = "signal"
    /\ \/ pc = "handled"
       \/ pc = "sent" /\ ~serviceUp
    /\ LET reply == AddonSignals_makeCall(request.callname, returnCalls)
           r == make_addonsignals_call(request.callname, reply)
       IN  /\ timedOut' = (reply = None)
           /\ callerOutcome' = r.out
           /\ errorLog' = errorLog \cup r.logs
    /\ pc' = "done"
    /\ UNCHANGED <<IPC_OVER_HTTP, SERVICE_IPC_OVER_HTTP, serviceUp, request, nativeCall, calleeOutcome,
                   adapterReturn, slotReturn, returnCalls, httpResponse>>

\* a signal reaches a slot wrapped with the ipc_return_call decorator:
\* make_return_call(instance, data)
DecoratedSlotSignalled(data, outcome) ==
    /\ UNCHANGED <<sessionVars, busVars>>
    /\ pc = "idle"
    /\ serviceUp
    /\ LET a == _ipc_return_call_instance(outcome, DecoratedName,
                                          SERVICE_IPC_OVER_HTTP)
       IN  /\ nativeCall' = _call_with_instance(AddonSignals_transfer(data))
           /\ calleeOutcome' = outcome
           /\ adapterReturn' = a.ret
           /\ slotReturn' = make_return_call(a.ret)
           /\ returnCalls' = a.calls
           /\ errorLog' = errorLog \cup a.logs
    /\ request' = [callname |-> DecoratedName, data |-> data, via |-> "slot"]
    /\ pc' = "slot_done"
    /\ UNCHANGED <<IPC_OVER_HTTP, SERVICE_IPC_OVER_HTTP, serviceUp, httpResponse, callerOutcome, timedOut>>

\* the exchange is over; the next one starts from a clean slate
NextExchange ==
    /\ UNCHANGED <<sessionVars, busVars>>
    /\ pc \in {"done", "slot_done"}
    /\ pc' = "idle"
    /\ request' = NoRequest
    /\ nativeCall' = NoCall
    /\ calleeOutcome' = Pending
    /\ adapterReturn' = Pending
    /\ slotReturn' = Pending
    /\ returnCalls' = <<>>
    /\ httpResponse' = NoResponse
    /\ callerOutcome' = Pending
    /\ errorLog' = {}
    /\ timedOut' = FALSE
    /\ UNCHANGED <<IPC_OVER_HTTP, SERVICE_IPC_OVER_HTTP, serviceUp>>

\* the setting behind g.IPC_OVER_HTTP is changed between exchanges and both
\* processes take it over
SetTransport ==
    /\ UNCHANGED <<sessionVars, busVars>>
    /\ pc = "idle"
    /\ IPC_OVER_HTTP' = ~IPC_OVER_HTTP
    /\ SERVICE_IPC_OVER_HTTP' = ~SERVICE_IPC_OVER_HTTP
    /\ UNCHANGED <<serviceUp, pc, request, nativeCall, calleeOutcome,
                   adapterReturn, slotReturn, returnCalls, httpResponse,
                   callerOutcome, errorLog, timedOut>>

\* the background service starts or stops between exchanges
ServiceStartStop ==
    /\ UNCHANGED <<sessionVars, busVars>>
    /\ pc = "idle"
    /\ serviceUp' = ~serviceUp
    /\ UNCHANGED <<IPC_OVER_HTTP, SERVICE_IPC_OVER_HTTP, pc, request, nativeCall, calleeOutcome,
                   adapterReturn, slotReturn, returnCalls, httpResponse,
                   callerOutcome, errorLog, timedOut>>

\* g.IPC_OVER_HTTP of the caller's process changes between exchanges while
\* the service keeps the value it has
CallerTransportChanges ==
    /\ UNCHANGED <<sessionVars, busVars>>
    /\ pc = "idle"
    /\ IPC_OVER_HTTP' = ~IPC_OVER_HTTP
    /\ UNCHANGED <<SERVICE_IPC_OVER_HTTP, serviceUp, pc, request, nativeCall,
                   calleeOutcome, adapterReturn, slotReturn, returnCalls,
                   httpResponse, callerOutcome, errorLog, timedOut>>

IPCNext ==
    \/ \E callname \in CallNames, data \in Payloads : MakeCall(callname, data)
    \/ HttpUnreachable
    \/ \E outcome \in CalleeOutcomes : CalleeHandle(outcome)
    \/ HttpReceive
    \/ SignalReceive
    \/ \E data \in Payloads, outcome \in CalleeOutcomes :
          DecoratedSlotSignalled(data, outcome)
    \/ NextExchange
    \/ SetTransport
    \/ ServiceStartStop

(***************************************************************************)
(* access.py: the session.                                                 *)
(*                                                                         *)
(* A cookie jar, in memory or on disk, is "empty"/"none", "anonymous"      *)
(* (cookies of a visitor who is not logged in), "authenticated" (the login *)
(* cookies, not expired) or "expired".                                     *)
(***************************************************************************)
JarStates == {"empty", "anonymous", "authenticated", "expired"}

StoredStates == {"none", "authenticated", "expired"}

NoOp == [op |-> "none", modal |-> FALSE, result |-> "", exc |-> "",
         wasLoggedIn |-> FALSE, stage |-> "", failure |-> "",
         credentialsAtStart |-> ""]

\* how a session operation ended
OpEnded(op, modal, result, exc, was) ==
    [op |-> op, modal |-> modal, result |-> result, exc |-> exc,
     wasLoggedIn |-> was, stage |-> "", failure |-> "",
     credentialsAtStart |-> ""]

\* SessionCookie._load_cookies: the stored cookies replace the jar; False
\* when there are none to load
_load_cookies(stored, jar) ==
    IF stored = "none" THEN [ok |-> FALSE, jar |-> jar]
    ELSE [ok |-> TRUE, jar |-> stored]

\* SessionCookie._verify_session_cookies: the login cookies are in the jar
\* and have not expired
_verify_session_cookies(jar) == jar = "authenticated"

\* _verify_esn_existence: bool(g.get_esn())
_verify_esn_existence(e) == e # ""

\* is_logged_in without the check of the device identifier
is_logged_in_no_esn(stored, jar, e) ==
    LET l == _load_cookies(stored, jar)
    IN  [valid |-> l.ok /\ _verify_session_cookies(l.jar), jar |-> l.jar]

\* is_logged_in that trusts the device identifier alone
is_logged_in_esn_only(stored, jar, e) ==
    LET l == _load_cookies(stored, jar)
    IN  [valid |-> _verify_esn_existence(e), jar |-> l.jar]

\* is_logged_in: load and verify and esn, left to right, stopping at the
\* first False; [valid, jar]
is_logged_in(stored, jar, e) ==
    LET l == _load_cookies(stored, jar)
    IN  [valid |-> l.ok /\ _verify_session_cookies(l.jar)
                        /\ _verify_esn_existence(e),
         jar |-> l.jar]

\* assert_logged_in: the exception it raises ("" for none) and the jar
assert_logged_in(conn, stored, jar, e) ==
    IF ~conn THEN [exc |-> "NotConnected", jar |-> jar]
    ELSE LET li == is_logged_in(stored, jar, e)
         IN  IF ~li.valid THEN [exc |-> "NotLoggedInError", jar |-> li.jar]
             ELSE [exc |-> "", jar |-> li.jar]

\* what self.get / self.post do when the request is performed
RequestOutcomes == {"ok", "RequestException"}

\* the body of get_safe / post_safe: assert_logged_in, then the verb;
\* [jar, requests, result, exc]
GuardedRequest(verb, reqOutcome, conn, stored, jar, e) ==
    LET a == assert_logged_in(conn, stored, jar, e)
    IN  IF a.exc # ""
        THEN [jar |-> a.jar, requests |-> <<>>, result |-> "raised",
              exc |-> a.exc]
        ELSE IF reqOutcome = "ok"
        THEN [jar |-> a.jar, requests |-> <<verb>>, result |-> "returned",
              exc |-> ""]
        ELSE [jar |-> a.jar, requests |-> <<verb>>, result |-> "raised",
              exc |-> reqOutcome]

\* get_safe(endpoint)
get_safe(reqOutcome) ==
    /\ LET was == is_logged_in(storedCookies, cookieJar, esn).valid
           g == GuardedRequest("GET", reqOutcome, connected, storedCookies,
                               cookieJar, esn)
       IN  /\ cookieJar' = g.jar
           /\ requests' = g.requests
           /\ sessionOp' = OpEnded("get_safe", FALSE, g.result, g.exc, was)
           /\ history' = [history EXCEPT
                             !.served = @ \/ g.result = "returned"]
    /\ uiShown' = {}
    /\ signalsSent' = <<>>
    /\ UNCHANGED <<connected, storedCookies, esn, credentials, derivedKinds,
                   is_prefetch_login>>
    /\ UNCHANGED <<ipcVars, busVars>>

\* post_safe(endpoint)
post_safe(reqOutcome) ==
    /\ LET was == is_logged_in(storedCookies, cookieJar, esn).valid
           g == GuardedRequest("POST", reqOutcome, connected, storedCookies,
                               cookieJar, esn)
       IN  /\ cookieJar' = g.jar
           /\ requests' = g.requests
           /\ sessionOp' = OpEnded("post_safe", FALSE, g.result, g.exc, was)
    /\ uiShown' = {}
    /\ signalsSent' = <<>>
    /\ UNCHANGED <<connected, storedCookies, esn, credentials, derivedKinds,
                   is_prefetch_login, history>>
    /\ UNCHANGED <<ipcVars, busVars>>

(***************************************************************************)
(* login.  What the remote backend and the page parsing do is an input:    *)
(* the stage at which the attempt stops and the exception raised there.    *)
(***************************************************************************)
LoginOutcomes ==
    {[stage |-> "get", kind |-> "RequestException"],
     [stage |-> "extract_auth", kind |-> "WebsiteParsingError"],
     [stage |-> "credentials", kind |-> "MissingCredentialsError"],
     [stage |-> "post", kind |-> "RequestException"],
     [stage |-> "post", kind |-> "LoginFailedError"],
     [stage |-> "validate", kind |-> "LoginValidateError"],
     [stage |-> "validate", kind |-> "LoginValidateErrorIncorrectPassword"],
     [stage |-> "validate", kind |-> "InvalidMembershipStatusError"],
     [stage |-> "validate", kind |-> "InvalidMembershipStatusAnonymous"],
     [stage |-> "validate", kind |-> "WebsiteParsingError"],
     [stage |-> "success", kind |-> ""]}

\* isinstance(exc, cls) for the kinds of resources.lib.api.exceptions; whether
\* the two specific kinds derive from their general kinds is `derived`
IsInstance(kind, cls, derived) ==
    \/ kind = cls
    \/ derived /\ kind = "LoginValidateErrorIncorrectPassword"
               /\ cls = "LoginValidateError"
    \/ derived /\ kind = "InvalidMembershipStatusAnonymous"
               /\ cls = "InvalidMembershipStatusError"

\* a clause that names LoginValidateError alone
ValidateClauseCatches_one(o, derived) ==
    /\ o.stage = "validate"
    /\ IsInstance(o.kind, "LoginValidateError", derived)

\* except (LoginValidateError, LoginValidateErrorIncorrectPassword), around
\* website.extract_session_data only
ValidateClauseCatches(o, derived) ==
    /\ o.stage = "validate"
    /\ \/ IsInstance(o.kind, "LoginValidateError", derived)
       \/ IsInstance(o.kind, "LoginValidateErrorIncorrectPassword", derived)

\* except InvalidMembershipStatusError, around the whole attempt
MembershipClauseCatches(o, derived) ==
    /\ o.stage # "success"
    /\ IsInstance(o.kind, "InvalidMembershipStatusError", derived)

\* the requests of a login attempt that stops at `stage`
LoginRequests(stage) ==
    IF stage = "get" THEN <<"GET login">>
    ELSE IF stage \in {"extract_auth", "credentials"} THEN <<"GET login">>
    ELSE <<"GET login", "POST login">>

\* the jar when the attempt stops, before any handler runs: the login page
\* leaves cookies of a visitor, the answer to the POST leaves `postJar`
JarAtStop(jar, stage, postJar) ==
    IF stage = "get" THEN jar
    ELSE IF stage \in {"extract_auth", "credentials", "post"}
         THEN (IF jar = "empty" THEN "anonymous" ELSE jar)
         ELSE postJar

\* website.extract_session_data, when it succeeds: the session data of the
\* page hold the device identifier, and it is stored when none is
extract_session_data_esn(e) == IF e = "" THEN "ESN" ELSE e

\* login that does not save the cookies of a successful attempt
LoginEffect_no_save(modal, o, jar, stored, creds, postJar, derived) ==
    LET j == JarAtStop(jar, o.stage, postJar)
    IN  IF o.stage = "success"
        THEN [jar |-> j, stored |-> stored, credentials |-> creds,
              ui |-> {"notification_30109"}, result |-> "True", exc |-> ""]
        ELSE [jar |-> "empty", stored |-> stored, credentials |-> creds,
              ui |-> {}, result |-> "raised", exc |-> o.kind]

\* login: [jar, stored, credentials, ui, result, exc] after the attempt `o`
LoginEffect(modal, o, jar, stored, creds, postJar, derived) ==
    LET j == JarAtStop(jar, o.stage, postJar)
    IN  IF o.stage = "success"
        THEN [jar |-> j, stored |-> j, credentials |-> creds,
              ui |-> {"notification_30109"}, result |-> "True", exc |-> ""]
        ELSE IF ValidateClauseCatches(o, derived)
        THEN IF ~modal
             THEN [jar |-> "empty", stored |-> stored, credentials |-> "none",
                   ui |-> {}, result |-> "raised", exc |-> o.kind]
             ELSE [jar |-> "empty", stored |-> stored, credentials |-> "none",
                   ui |-> {"ok_dialog_30008"}, result |-> "False", exc |-> ""]
        ELSE IF MembershipClauseCatches(o, derived)
        THEN [jar |-> j, stored |-> stored, credentials |-> creds,
              ui |-> {"error_info_30180"}, result |-> "False", exc |-> ""]
        ELSE [jar |-> "empty", stored |-> stored, credentials |-> creds,
              ui |-> {}, result |-> "raised", exc |-> o.kind]

\* login(modal_error_message=modal)
login(modal, o, postJar) ==
    /\ (o.stage = "credentials") <=> (credentials = "none" /\ o.stage # "get"
                                       /\ o.stage # "extract_auth")
    /\ ~connected => o.stage = "get"
    /\ o.stage = "success" => postJar = "authenticated"
    /\ o.stage \notin {"validate", "success"} => postJar = "anonymous"
    /\ LET was == is_logged_in(storedCookies, cookieJar, esn).valid
           e == LoginEffect(modal, o, cookieJar, storedCookies, credentials,
                            postJar, derivedKinds)
       IN  /\ cookieJar' = e.jar
           /\ storedCookies' = e.stored
           /\ credentials' = e.credentials
           /\ uiShown' = e.ui
           /\ sessionOp' = [OpEnded("login", modal, e.result, e.exc, was)
                               EXCEPT !.stage = o.stage, !.failure = o.kind,
                                      !.credentialsAtStart = credentials]
           /\ history' = [history EXCEPT
                             !.loggedOut = @ /\ e.result # "True"]
    /\ esn' = IF o.stage = "success" THEN extract_session_data_esn(esn)
              ELSE esn
    /\ requests' = LoginRequests(o.stage)
    /\ signalsSent' = <<>>
    /\ UNCHANGED <<connected, derivedKinds, is_prefetch_login>>
    /\ UNCHANGED <<ipcVars, busVars>>

(***************************************************************************)
(* prefetch_login, called once by NetflixSession.__init__.                 *)
(***************************************************************************)
\* the except clauses of prefetch_login, in their order, for an exception of
\* `kind` that left the try block: [ui, exc], exc "" when a clause caught it
PrefetchHandlers(kind, derived) ==
    IF kind = "RequestException" THEN [ui |-> {}, exc |-> ""]
    ELSE IF kind = "MissingCredentialsError" THEN [ui |-> {}, exc |-> ""]
    ELSE IF \/ IsInstance(kind, "LoginFailedError", derived)
            \/ IsInstance(kind, "LoginValidateError", derived)
    THEN [ui |-> {"notification_30009"}, exc |-> ""]
    ELSE IF \/ IsInstance(kind, "InvalidMembershipStatusError", derived)
            \/ IsInstance(kind, "InvalidMembershipStatusAnonymous", derived)
    THEN [ui |-> {"notification_30180_10s"}, exc |-> ""]
    ELSE [ui |-> {}, exc |-> kind]

\* what prefetch_login leaves when nothing in the try block changed the
\* session but the jar
PrefetchQuiet(jar, stored, creds, e, kind, derived, flag) ==
    LET h == PrefetchHandlers(kind, derived)
    IN  [jar |-> jar, stored |-> stored, credentials |-> creds, esn |-> e,
         ui |-> h.ui, requests |-> <<>>, exc |-> h.exc, flag |-> flag,
         attempted |-> FALSE, loginResult |-> ""]

\* the login attempt of prefetch_login and the clause that handles its
\* exception
PrefetchAttempt(o, jar, stored, e, creds, postJar, derived, flag) ==
    LET l == LoginEffect(FALSE, o, jar, stored, creds, postJar, derived)
        h == PrefetchHandlers(l.exc, derived)
    IN  [jar |-> l.jar, stored |-> l.stored, credentials |-> l.credentials,
         esn |-> IF o.stage = "success" THEN extract_session_data_esn(e)
                 ELSE e,
         ui |-> IF l.exc = "" THEN l.ui ELSE h.ui,
         requests |-> LoginRequests(o.stage),
         exc |-> IF l.exc = "" THEN "" ELSE h.exc,
         flag |-> IF l.exc = "" THEN TRUE ELSE flag,
         attempted |-> TRUE, loginResult |-> l.result]

\* prefetch_login that attempts the login without asking for the stored
\* credentials first
PrefetchEffect_no_get_credentials(o, jar, stored, e, creds, postJar, derived, flag) ==
    LET li == is_logged_in(stored, jar, e)
    IN  IF li.valid
        THEN PrefetchQuiet(li.jar, stored, creds, e, "", derived, TRUE)
        ELSE PrefetchAttempt(o, li.jar, stored, e, creds, postJar, derived,
                             flag)

\* prefetch_login: get_credentials, then login(modal_error_message=False)
\* unless is_logged_in, then the flag; `flag` is self.is_prefetch_login
PrefetchEffect(o, jar, stored, e, creds, postJar, derived, flag) ==
    IF creds = "none"
    THEN PrefetchQuiet(jar, stored, creds, e, "MissingCredentialsError",
                       derived, flag)
    ELSE LET li == is_logged_in(stored, jar, e)
         IN  IF li.valid
             THEN PrefetchQuiet(li.jar, stored, creds, e, "", derived, TRUE)
             ELSE PrefetchAttempt(o, li.jar, stored, e, creds, postJar,
                                  derived, flag)

\* prefetch_login()
prefetch_login(o, postJar) ==
    /\ (o.stage = "credentials") <=> (credentials = "none" /\ o.stage # "get"
                                       /\ o.stage # "extract_auth")
    /\ ~connected => o.stage = "get"
    /\ o.stage = "success" => postJar = "authenticated"
    /\ o.stage \notin {"validate", "success"} => postJar = "anonymous"
    /\ LET was == is_logged_in(storedCookies, cookieJar, esn).valid
           p == PrefetchEffect(o, cookieJar, storedCookies, esn, credentials,
                               postJar, derivedKinds, is_prefetch_login)
       IN  /\ cookieJar' = p.jar
           /\ storedCookies' = p.stored
           /\ credentials' = p.credentials
           /\ esn' = p.esn
           /\ uiShown' = p.ui
           /\ requests' = p.requests
           /\ is_prefetch_login' = p.flag
           /\ sessionOp' = [OpEnded("prefetch_login", FALSE,
                                    IF p.exc = "" THEN "returned" ELSE "raised",
                                    p.exc, was)
                               EXCEPT !.stage = IF p.attempted THEN o.stage
                                                ELSE "",
                                      !.failure = IF p.attempted THEN o.kind
                                                  ELSE "",
                                      !.credentialsAtStart = credentials]
           /\ history' = [history EXCEPT
                             !.loggedOut = @ /\ p.loginResult # "True"]
    /\ signalsSent' = <<>>
    /\ UNCHANGED <<connected, derivedKinds>>
    /\ UNCHANGED <<ipcVars, busVars>>

(***************************************************************************)
(* logout.  `getOutcome` is what self.get('logout') does.                  *)
(***************************************************************************)
logout(getOutcome) ==
    /\ ~connected => getOutcome # "ok"
    /\ LET was == is_logged_in(storedCookies, cookieJar, esn).valid
       IN  IF getOutcome # "ok"
           THEN /\ sessionOp' = OpEnded("logout", FALSE, "raised", getOutcome, was)
                /\ signalsSent' = <<>>
                /\ uiShown' = {}
                /\ UNCHANGED <<cookieJar, storedCookies, credentials, esn,
                               history>>
           ELSE /\ cookieJar' = "empty"
                /\ storedCookies' = "none"
                /\ credentials' = "none"
                /\ esn' = ""
                /\ signalsSent' = <<"reinitialize_msl_handler">>
                /\ uiShown' = {"notification_30113"}
                /\ sessionOp' = OpEnded("logout", FALSE, "returned", "", was)
                /\ history' = [history EXCEPT !.loggedOut = TRUE]
    /\ requests' = <<"GET logout">>
    /\ UNCHANGED <<connected, derivedKinds, is_prefetch_login>>
    /\ UNCHANGED <<ipcVars, busVars>>

(***************************************************************************)
(* The environment of the session, between two operations.                 *)
(***************************************************************************)
OperationOver ==
    /\ sessionOp' = NoOp
    /\ uiShown' = {}
    /\ requests' = <<>>
    /\ signalsSent' = <<>>

\* the network comes or goes
ConnectivityChanges ==
    /\ connected' = ~connected
    /\ OperationOver
    /\ UNCHANGED <<cookieJar, storedCookies, esn, credentials,
                   derivedKinds, is_prefetch_login, history>>
    /\ UNCHANGED <<ipcVars, busVars>>

\* the user enters credentials and they are stored
CredentialsStored ==
    /\ credentials = "none"
    /\ credentials' = "stored"
    /\ OperationOver
    /\ UNCHANGED <<connected, cookieJar, storedCookies, esn,
                   derivedKinds, is_prefetch_login, history>>
    /\ UNCHANGED <<ipcVars, busVars>>

\* the device identifier is obtained and stored
EsnObtained ==
    /\ esn = ""
    /\ esn' = "ESN"
    /\ OperationOver
    /\ UNCHANGED <<connected, cookieJar, storedCookies, credentials,
                   derivedKinds, is_prefetch_login, history>>
    /\ UNCHANGED <<ipcVars, busVars>>

\* time passes and the stored login cookies expire
CookiesExpire ==
    /\ storedCookies = "authenticated"
    /\ storedCookies' = "expired"
    /\ OperationOver
    /\ UNCHANGED <<connected, cookieJar, esn, credentials,
                   derivedKinds, is_prefetch_login, history>>
    /\ UNCHANGED <<ipcVars, busVars>>

\* the session of a service that has just started
SessionInit ==
    /\ connected \in BOOLEAN
    /\ cookieJar = "empty"
    /\ storedCookies \in StoredStates
    /\ esn \in {"", "ESN"}
    /\ credentials \in {"none", "stored"}
    /\ derivedKinds \in BOOLEAN
    /\ is_prefetch_login = FALSE
    /\ history = [served |-> FALSE, loggedOut |-> FALSE]
    /\ sessionOp = NoOp
    /\ uiShown = {}
    /\ requests = <<>>
    /\ signalsSent = <<>>

\* the session while the IPC layer alone is looked at
SessionAtRest ==
    /\ connected = TRUE
    /\ cookieJar = "empty"
    /\ storedCookies = "none"
    /\ esn = ""
    /\ credentials = "none"
    /\ derivedKinds = TRUE
    /\ is_prefetch_login = FALSE
    /\ history = [served |-> FALSE, loggedOut |-> FALSE]
    /\ sessionOp = NoOp
    /\ uiShown = {}
    /\ requests = <<>>
    /\ signalsSent = <<>>

\* the IPC layer while the session alone is looked at
IPCAtRest ==
    /\ IPC_OVER_HTTP = FALSE
    /\ SERVICE_IPC_OVER_HTTP = FALSE
    /\ serviceUp = TRUE
    /\ pc = "idle"
    /\ ExchangeCleared

SessionNext ==
    \/ \E reqOutcome \in RequestOutcomes : get_safe(reqOutcome)
    \/ \E reqOutcome \in RequestOutcomes : post_safe(reqOutcome)
    \/ \E modal \in BOOLEAN, o \in LoginOutcomes,
          postJar \in {"anonymous", "authenticated"} : login(modal, o, postJar)
    \/ \E getOutcome \in RequestOutcomes : logout(getOutcome)
    \/ \E o \in LoginOutcomes, postJar \in {"anonymous", "authenticated"} :
          prefetch_login(o, postJar)
    \/ ConnectivityChanges
    \/ CredentialsStored
    \/ EsnObtained
    \/ CookiesExpire

(***************************************************************************)
(* ipc.py: the slots registered with AddonSignals.  A registration is a    *)
(* triple of the signaler id (the source scope), the signal name and the   *)
(* callback.                                                               *)
(***************************************************************************)
\* g.ADDON_ID
ADDON_ID == "plugin.video.netflix"

\* the source_id argument: "" for None
SourceIds == {"", ADDON_ID, "script.other"}

\* callables, with their __name__
Callbacks == {[id |-> "cb1", name |-> "on_event"],
              [id |-> "cb2", name |-> "on_event"]}

\* the signal argument: "" for None
SignalArgs == {"", "get_safe"}

\* name = signal if signal else callback.__name__
SlotName(callback, signal) == IF signal # "" THEN signal ELSE callback.name

\* the registrations of `signal` under `signaler_id`
SlotsOf(reg, signaler_id, signal) ==
    {r \in reg : r.scope = signaler_id /\ r.signal = signal}

\* a registerSlot that adds the callback beside the ones already there
AddonSignals_registerSlot_append(reg, signaler_id, signal, callback) ==
    reg \cup {[scope |-> signaler_id, signal |-> signal, callback |-> callback.id]}

\* AddonSignals.registerSlot(signaler_id, signal, callback): the callback
\* becomes the one of this signal under this signaler id
AddonSignals_registerSlot(reg, signaler_id, signal, callback) ==
    (reg \ SlotsOf(reg, signaler_id, signal))
        \cup {[scope |-> signaler_id, signal |-> signal, callback |-> callback.id]}

\* AddonSignals.unRegisterSlot(signaler_id, signal): the signal has no
\* callback under this signaler id any more; nothing to do when it had none
AddonSignals_unRegisterSlot(reg, signaler_id, signal) ==
    reg \ SlotsOf(reg, signaler_id, signal)

NoSlotOp == [op |-> "none", name |-> "", scope |-> "", callback |-> "",
             absent |-> FALSE, changed |-> FALSE,
             prevOp |-> "none", prevName |-> "", prevScope |-> "",
             prevCallback |-> ""]

\* the registry operation that ran, and the one before it
SlotOpEnded(op, name, scope, callback, absent, changed, prev) ==
    [op |-> op, name |-> name, scope |-> scope, callback |-> callback,
     absent |-> absent, changed |-> changed,
     prevOp |-> prev.op, prevName |-> prev.name, prevScope |-> prev.scope,
     prevCallback |-> prev.callback]

\* register_slot(callback, signal, source_id)
register_slot(callback, signal, source_id) ==
    /\ LET name == SlotName(callback, signal)
           scope == IF source_id # "" THEN source_id ELSE ADDON_ID
           reg == AddonSignals_registerSlot(slots, scope, name, callback)
       IN  /\ slots' = reg
           /\ slotOp' = SlotOpEnded("register_slot", name, scope, callback.id,
                                    SlotsOf(slots, scope, name) = {},
                                    reg # slots, slotOp)
    /\ UNCHANGED <<issued, workers, bus>>
    /\ UNCHANGED <<ipcVars, sessionVars>>

\* unregister_slot(callback, signal)
unregister_slot(callback, signal) ==
    /\ LET name == SlotName(callback, signal)
           reg == AddonSignals_unRegisterSlot(slots, ADDON_ID, name)
       IN  /\ slots' = reg
           /\ slotOp' = SlotOpEnded("unregister_slot", name, ADDON_ID,
                                    callback.id,
                                    SlotsOf(slots, ADDON_ID, name) = {},
                                    reg # slots, slotOp)
    /\ UNCHANGED <<issued, workers, bus>>
    /\ UNCHANGED <<ipcVars, sessionVars>>

(***************************************************************************)
(* ipc.py: send_signal.  An emission is its position in `issued`.          *)
(***************************************************************************)
\* emissions a caller issues in one run
MaxEmits == 3

\* run_threaded(non_blocking, target_func, ...): target_func runs in a new
\* thread when non_blocking, in the calling thread otherwise
run_threaded(non_blocking) == IF non_blocking THEN "thread" ELSE "inline"

\* send_signal(signal, data, non_blocking): _send_signal is called at once,
\* or handed to a thread of its own
send_signal(signal, non_blocking) ==
    /\ Len(issued) < MaxEmits
    /\ issued' = Append(issued, [signal |-> signal,
                                  non_blocking |-> non_blocking])
    /\ IF run_threaded(non_blocking) = "thread"
       THEN /\ workers' = workers \cup {Len(issued) + 1}
            /\ UNCHANGED bus
       ELSE /\ bus' = Append(bus, Len(issued) + 1)
            /\ UNCHANGED workers
    /\ UNCHANGED <<slots, slotOp>>
    /\ UNCHANGED <<ipcVars, sessionVars>>

\* _send_signal in the thread of emission e: AddonSignals.sendSignal
_send_signal(e) ==
    /\ e \in workers
    /\ bus' = Append(bus, e)
    /\ workers' = workers \ {e}
    /\ UNCHANGED <<issued, slots, slotOp>>
    /\ UNCHANGED <<ipcVars, sessionVars>>

\* the caller starts over once everything was sent
EmissionsOver ==
    /\ workers = {}
    /\ issued # <<>>
    /\ issued' = <<>>
    /\ bus' = <<>>
    /\ UNCHANGED <<workers, slots, slotOp>>
    /\ UNCHANGED <<ipcVars, sessionVars>>

\* the registry of a service that has just started: NetflixSession.__init__
\* registered a slot
BusInit ==
    /\ slots = {[scope |-> ADDON_ID, signal |-> "get_safe", callback |-> "cb1"]}
    /\ slotOp = NoSlotOp
    /\ issued = <<>>
    /\ workers = {}
    /\ bus = <<>>

RegistryNext ==
    \/ \E callback \in Callbacks, signal \in SignalArgs,
          source_id \in SourceIds : register_slot(callback, signal, source_id)
    \/ \E callback \in Callbacks, signal \in SignalArgs :
          unregister_slot(callback, signal)

SignalNames == {"reinitialize_msl_handler", "esn_changed"}

EmitNext ==
    \/ \E signal \in SignalNames, non_blocking \in BOOLEAN :
          send_signal(signal, non_blocking)
    \/ \E e \in 1..MaxEmits : _send_signal(e)
    \/ EmissionsOver

vars == <<ipcVars, sessionVars, busVars>>

Init == IPCInit /\ SessionAtRest /\ BusInit

Next == IPCNext

Spec == Init /\ [][Next]_vars

\* the two processes, each with its own g.IPC_OVER_HTTP
TwoProcessNext == IPCNext \/ CallerTransportChanges

TwoProcessInit == IPCInit /\ SessionAtRest /\ BusInit

\* the service handles a call it was sent, and the caller's wait ends
TwoProcessFairness ==
    /\ WF_vars(\E outcome \in CalleeOutcomes : CalleeHandle(outcome))
    /\ WF_vars(SignalReceive)

TwoProcessSpec ==
    TwoProcessInit /\ [][TwoProcessNext]_vars /\ TwoProcessFairness

SessionSpecInit == SessionInit /\ IPCAtRest /\ BusInit

SessionSpec == SessionSpecInit /\ [][SessionNext]_vars

RegistrySpecInit == BusInit /\ IPCAtRest /\ SessionAtRest

RegistrySpec == RegistrySpecInit /\ [][RegistryNext]_vars

EmitSpec == RegistrySpecInit /\ [][EmitNext]_vars

(***************************************************************************)
(* Properties of the IPC layer, checked under Spec.                        *)
(***************************************************************************)
\* an exchange through make_call has ended and the callee was invoked
ExchangeDone ==
    /\ pc = "done"
    /\ request.via \in {"http", "signal"}
    /\ calleeOutcome.st # "pending"

\* the JSON image of a value: a tuple arrives as a list
JsonImage(v) == IF v.t = "tuple" THEN [v EXCEPT !.t = "list"] ELSE v

\* C1, as stated: a callee that raises kind K with message M makes the caller
\* of make_call observe kind K, or the generic Exception when K is not
\* registered, carrying message M, on both transports.
C1_AsStated ==
    (ExchangeDone /\ calleeOutcome.st = "exc") =>
        /\ callerOutcome.st = "exc"
        /\ callerOutcome.kind =
              (IF calleeOutcome.kind \in apierrors THEN calleeOutcome.kind
               ELSE "Exception")
        /\ callerOutcome.msg = calleeOutcome.msg

\* C1, amended: the caller observes kind K carrying message M when K is
\* registered, and the generic Exception carrying the name of K (not M) when
\* it is not; the outcome does not depend on the transport.
C1_ErrorTransparency ==
    (ExchangeDone /\ calleeOutcome.st = "exc") =>
        /\ callerOutcome.st = "exc"
        /\ calleeOutcome.kind \in apierrors =>
              /\ callerOutcome.kind = calleeOutcome.kind
              /\ callerOutcome.msg = calleeOutcome.msg
        /\ calleeOutcome.kind \notin apierrors =>
              /\ callerOutcome.kind = "Exception"
              /\ callerOutcome.msg = calleeOutcome.kind

C1_Witness ==
    /\ ExchangeDone
    /\ request.via = "http"
    /\ calleeOutcome = Raised("ValueError", "m1")
    /\ callerOutcome = Raised("Exception", "ValueError")

\* the native invocation that corresponds to a payload: none, the value as
\* the single positional argument, or the mapping as named arguments
NativeCallFor(data) ==
    IF data.t = "dict"
    THEN [shape |-> "kwargs", arg |-> data, instance |-> FALSE]
    ELSE IF data.t = "none"
         THEN [shape |-> "noargs", arg |-> None, instance |-> FALSE]
         ELSE [shape |-> "positional", arg |-> data, instance |-> FALSE]

\* C2, as stated: for every call name and payload shape, make_call returns a
\* value equal to what the callee returned, the callee being invoked with
\* the payload as native arguments.
C2_AsStated ==
    (ExchangeDone /\ calleeOutcome.st = "ret") =>
        /\ nativeCall = NativeCallFor(request.data)
        /\ callerOutcome = Returned(calleeOutcome.val)

\* C2, amended: the callee is invoked with the JSON image of the payload and
\* make_call returns the JSON image of the value the callee returned, except
\* that a returned None is observed as {} on the signal transport and that a
\* returned mapping with the key error is raised instead of returned.
C2_RoundTrip ==
    (ExchangeDone /\ calleeOutcome.st = "ret") =>
        /\ nativeCall = NativeCallFor(JsonImage(request.data))
        /\ LET v == calleeOutcome.val
           IN  IF v.t = "dict" /\ \E p \in v.m : p[1] = "error"
               THEN callerOutcome.st = "exc"
               ELSE IF v.t = "none" /\ request.via = "signal"
               THEN callerOutcome = Returned(Dict({}))
               ELSE callerOutcome = Returned(JsonImage(v))

C2_Witness ==
    /\ ExchangeDone
    /\ request.via = "signal"
    /\ request.data = PyInt(0)
    /\ nativeCall.shape = "positional"
    /\ calleeOutcome = Returned(Dict({<<"id", "a">>}))
    /\ callerOutcome = Returned(Dict({<<"id", "a">>}))

\* C3, as stated: when the callee returns None the caller observes an empty
\* mapping and does not wait until the timeout, whichever the transport.
C3_AsStated ==
    (ExchangeDone /\ calleeOutcome = Returned(None)) =>
        /\ callerOutcome = Returned(Dict({}))
        /\ ~timedOut

\* C3, amended: when the callee returns None the caller never waits until the
\* timeout; it observes an empty mapping on the signal transport and None on
\* the loopback HTTP transport.
C3_NoneReturn ==
    (ExchangeDone /\ calleeOutcome = Returned(None)) =>
        /\ ~timedOut
        /\ request.via = "signal" => callerOutcome = Returned(Dict({}))
        /\ request.via = "http" => callerOutcome = Returned(None)

C3_Witness ==
    /\ ExchangeDone
    /\ request.via = "signal"
    /\ calleeOutcome = Returned(None)
    /\ callerOutcome = Returned(Dict({}))
    /\ ~timedOut

\* C4: every exception raised in a callee invoked through the adapter, in
\* decorator form or through EnvelopeIPCReturnCall.call, is replaced by the
\* envelope {error: kind, message: text}; the adapter never ends with the
\* exception of the callee propagating.
C4_ExceptionsEnveloped ==
    calleeOutcome.st = "exc" =>
        /\ adapterReturn.st = "ret"
        /\ adapterReturn.val.t = "dict"
        /\ adapterReturn.val.m = {<<"error", calleeOutcome.kind>>,
                                  <<"message", calleeOutcome.msg>>}
        /\ slotReturn.st # "exc"

C4_Witness ==
    /\ pc = "slot_done"
    /\ nativeCall.instance
    /\ calleeOutcome = Raised("ValueError", "m2")
    /\ adapterReturn.st = "ret"
    /\ adapterReturn.val.m = {<<"error", "ValueError">>, <<"message", "m2">>}

\* C5: across a complete exchange an error of kind CacheMiss writes no entry
\* at error level, and an error of any other kind writes one.
C5_CacheMissNotLogged ==
    (ExchangeDone /\ calleeOutcome.st = "exc") =>
        IF calleeOutcome.kind = "CacheMiss"
        THEN \A l \in errorLog : l.kind # "CacheMiss"
        ELSE \E l \in errorLog : l.kind = calleeOutcome.kind

(***************************************************************************)
(* Properties of the session, checked under SessionSpec.                   *)
(***************************************************************************)
\* LoggedOut: the stored cookies do not load, or do not verify, or the device
\* identifier is empty
LoggedOut == storedCookies # "authenticated" \/ esn = ""

GuardedOps == {"get_safe", "post_safe"}

\* C6, as stated: while LoggedOut, get_safe and post_safe fail with
\* NotLoggedInError and the GET / POST is never performed.
C6_AsStated ==
    (sessionOp.op \in GuardedOps /\ LoggedOut) =>
        /\ sessionOp.result = "raised"
        /\ sessionOp.exc = "NotLoggedInError"
        /\ requests = <<>>

\* C6, amended: while LoggedOut, get_safe and post_safe fail, with
\* NotLoggedInError when the internet connection is available and with
\* NotConnected when it is not, and the GET / POST is never performed.
C6_GuardRefuses ==
    (sessionOp.op \in GuardedOps /\ LoggedOut) =>
        /\ sessionOp.result = "raised"
        /\ sessionOp.exc =
              (IF connected THEN "NotLoggedInError" ELSE "NotConnected")
        /\ requests = <<>>

C6_Witness ==
    /\ sessionOp.op = "get_safe"
    /\ connected
    /\ storedCookies = "authenticated"
    /\ esn = ""
    /\ sessionOp.exc = "NotLoggedInError"
    /\ requests = <<>>

\* C7: starting from LoggedIn, logout() ends in LoggedOut with the cookie jar
\* empty, the cookie record on disk deleted, the device identifier cleared
\* and the reinitialize-msl-handler broadcast sent exactly once.
C7_LogoutFromLoggedIn ==
    (sessionOp.op = "logout" /\ sessionOp.wasLoggedIn) =>
        /\ LoggedOut
        /\ cookieJar = "empty"
        /\ storedCookies = "none"
        /\ esn = ""
        /\ signalsSent = <<"reinitialize_msl_handler">>

\* C8: for every outcome of the GET to the logout endpoint, logout() clears
\* the cookies, purges the credentials, clears the device identifier and
\* ends in LoggedOut.
C8_LogoutBestEffortGet ==
    sessionOp.op = "logout" =>
        /\ cookieJar = "empty"
        /\ storedCookies = "none"
        /\ credentials = "none"
        /\ esn = ""
        /\ LoggedOut

\* C9: whenever login() does not succeed, by returning False or by raising,
\* the cookie jar is empty when it finishes.
C9_FailedLoginEmptyJar ==
    (sessionOp.op = "login" /\ sessionOp.result # "True") =>
        cookieJar = "empty"

ValidationFailures == {"LoginValidateError", "LoginValidateErrorIncorrectPassword"}

\* C10: login() with credentials that fail server validation clears the
\* cookies and purges the credentials on both paths; with
\* modal_error_message it shows a dialog and returns without raising,
\* without it it re-raises the failure and shows no dialog.
C10_ValidationFailure ==
    (sessionOp.op = "login" /\ sessionOp.stage = "validate"
        /\ sessionOp.failure \in ValidationFailures) =>
        /\ cookieJar = "empty"
        /\ credentials = "none"
        /\ sessionOp.modal =>
              /\ "ok_dialog_30008" \in uiShown
              /\ sessionOp.result = "False"
        /\ ~sessionOp.modal =>
              /\ sessionOp.result = "raised"
              /\ sessionOp.exc = sessionOp.failure
              /\ uiShown = {}

C10_Witness ==
    /\ sessionOp.op = "login"
    /\ ~sessionOp.modal
    /\ sessionOp.failure = "LoginValidateErrorIncorrectPassword"
    /\ sessionOp.result = "raised"
    /\ credentials = "none"
    /\ cookieJar = "empty"

(***************************************************************************)
(* Properties of prefetch_login, checked under SessionSpec.                *)
(***************************************************************************)
\* prefetch_login ended after it was called while LoggedOut
PrefetchFromLoggedOut ==
    /\ sessionOp.op = "prefetch_login"
    /\ ~sessionOp.wasLoggedIn

CredentialFailures ==
    {"LoginFailedError", "LoginValidateError",
     "LoginValidateErrorIncorrectPassword"}

MembershipFailures ==
    {"InvalidMembershipStatusError", "InvalidMembershipStatusAnonymous"}

\* C11: prefetch_login called while LoggedOut with no stored credentials
\* returns without an exception, leaves the session LoggedOut, shows no
\* notification and no dialog, and sends no request to the remote backend.
C11_PrefetchNoCredentials ==
    (PrefetchFromLoggedOut /\ sessionOp.credentialsAtStart = "none")
        => /\ LoggedOut
           /\ sessionOp.result = "returned"
           /\ sessionOp.exc = ""
           /\ uiShown = {}
           /\ requests = <<>>

C11_Witness ==
    /\ PrefetchFromLoggedOut
    /\ sessionOp.credentialsAtStart = "none"
    /\ connected

\* prefetch_login ended after a login attempt that the remote backend
\* accepted: the credentials were stored and valid, the backend reachable
PrefetchSucceeded ==
    /\ PrefetchFromLoggedOut
    /\ sessionOp.credentialsAtStart = "stored"
    /\ sessionOp.stage = "success"

\* C12: prefetch_login called while LoggedOut with valid stored credentials
\* and a reachable backend ends LoggedIn: the cookies stored under the
\* account hash load and verify and the device identifier is present, so
\* that is_logged_in() holds, and a get_safe that follows performs the GET.
C12_PrefetchLogsIn ==
    /\ [](PrefetchSucceeded
            => /\ sessionOp.result = "returned"
               /\ storedCookies = "authenticated"
               /\ esn # ""
               /\ ~LoggedOut
               /\ is_logged_in(storedCookies, cookieJar, esn).valid)
    /\ [][(PrefetchSucceeded /\ sessionOp'.op = "get_safe")
            => /\ requests' = <<"GET">>
               /\ sessionOp'.exc \notin {"NotLoggedInError", "NotConnected"}]_vars

C12_Witness ==
    /\ PrefetchSucceeded
    /\ is_prefetch_login
    /\ uiShown = {"notification_30109"}

\* C13: a membership-status failure of the login attempt of prefetch_login
\* shows the longer-lived notification only, no dialog, and leaves the
\* session LoggedOut.
C13_PrefetchMembershipFailure ==
    (PrefetchFromLoggedOut /\ sessionOp.failure \in MembershipFailures)
        => /\ uiShown = {"notification_30180_10s"}
           /\ LoggedOut

\* C14: a login attempt, interactive or through prefetch_login, that fails
\* with a credential failure leaves no stored credentials, one that fails
\* with a membership failure leaves the stored credentials as they were;
\* through prefetch_login the credential failures show the passive
\* notification and prefetch_login returns without an exception.
C14_CredentialPurge ==
    /\ (sessionOp.op \in {"login", "prefetch_login"}
          /\ sessionOp.failure \in CredentialFailures)
        => credentials = "none"
    /\ (sessionOp.op \in {"login", "prefetch_login"}
          /\ sessionOp.failure \in MembershipFailures)
        => credentials = sessionOp.credentialsAtStart
    /\ (sessionOp.op = "prefetch_login"
          /\ sessionOp.failure \in CredentialFailures)
        => /\ uiShown = {"notification_30009"}
           /\ sessionOp.result = "returned"

(***************************************************************************)
(* Order of the emissions, checked under EmitSpec.                         *)
(***************************************************************************)
\* C15: the emissions a caller issues through send_signal reach
\* AddonSignals.sendSignal in the order they were issued, in blocking and in
\* non-blocking mode.
C15_IssueOrder ==
    \A a, b \in 1..Len(bus) : a < b => bus[a] < bus[b]

(***************************************************************************)
(* The guard after logout, checked under SessionSpec.                      *)
(***************************************************************************)
\* C16: once logout() has completed, every get_safe and post_safe raises
\* without a request to the remote backend until a login succeeds, also
\* when a get_safe was served before the logout.
C16_GuardAfterLogout ==
    (history.loggedOut /\ sessionOp.op \in GuardedOps)
        => /\ sessionOp.result = "raised"
           /\ sessionOp.exc \in {"NotLoggedInError", "NotConnected"}
           /\ requests = <<>>

C16_Witness ==
    /\ history.loggedOut
    /\ history.served
    /\ sessionOp.op = "get_safe"
    /\ sessionOp.exc = "NotLoggedInError"
    /\ esn # ""
    /\ credentials = "stored"

(***************************************************************************)
(* Blocking calls, checked under Spec.                                     *)
(***************************************************************************)
\* the error of make_addonsignals_call for a reply that did not come
GenericTimeout == Raised("Exception", "Addon Signals call timeout")

\* a call through make_call ended while the service was not running
UnreachableCallDone ==
    /\ pc = "done"
    /\ request.via \in {"http", "signal"}
    /\ ~serviceUp

\* C17, as stated: a call to a remote side that cannot be reached raises
\* BackendNotReady over HTTP and over signals alike, and the generic
\* timeout error is raised only when the remote side can be reached.
C17_AsStated ==
    /\ UnreachableCallDone => callerOutcome.kind = "BackendNotReady"
    /\ (pc = "done" /\ callerOutcome = GenericTimeout) => serviceUp

\* C17: a call to a remote side that cannot be reached raises
\* BackendNotReady over HTTP; over signals it raises the generic timeout
\* error, which is raised over signals only and exactly when no reply came.
C17_UnreachableRemote ==
    /\ (UnreachableCallDone /\ request.via = "http")
        => /\ callerOutcome.st = "exc"
           /\ callerOutcome.kind = "BackendNotReady"
    /\ (UnreachableCallDone /\ request.via = "signal")
        => callerOutcome = GenericTimeout
    /\ (pc = "done" /\ callerOutcome = GenericTimeout)
        => request.via = "signal" /\ timedOut /\ returnCalls = <<>>

C17_Witness ==
    /\ UnreachableCallDone
    /\ request.via = "signal"
    /\ ~IPC_OVER_HTTP

\* what AddonSignals.makeCall handed to make_addonsignals_call: the data of
\* the return call as it arrives, None when there was none
ReplyReceived ==
    IF returnCalls = <<>> THEN None ELSE JsonImage(returnCalls[1].data)

SignalCallDone ==
    /\ pc = "done"
    /\ request.via = "signal"

\* C18: make_addonsignals_call never returns None: a None reply is raised
\* as an error, a reply that is a mapping with the key error is raised and
\* not returned, and any other reply is returned as it is.
C18_NoNoneReturned ==
    SignalCallDone
        => /\ callerOutcome # Returned(None)
           /\ ReplyReceived = None => callerOutcome.st = "exc"
           /\ (IsDict(ReplyReceived) /\ HasKey(ReplyReceived, "error"))
                => callerOutcome.st = "exc"
           /\ (ReplyReceived # None
                 /\ ~(IsDict(ReplyReceived) /\ HasKey(ReplyReceived, "error")))
                => callerOutcome = Returned(ReplyReceived)

C18_Witness ==
    /\ SignalCallDone
    /\ ReplyReceived = None
    /\ callerOutcome.st = "exc"

\* the result envelope of the adapter: what the callee returned, or the
\* error mapping of what it raised
Envelope ==
    IF calleeOutcome.st = "exc"
    THEN Dict({<<"error", calleeOutcome.kind>>, <<"message", calleeOutcome.msg>>})
    ELSE calleeOutcome.val

\* C19: in both forms the adapter answers over the configured transport:
\* over HTTP the registered callable returns the envelope to its invoker
\* and no return call is issued; over signals exactly one return call is
\* issued, tagged with the name of the callee, carrying the envelope, {}
\* for None.
C19_AdapterTransport ==
    (pc \in {"handled", "slot_done"})
        => IF IPC_OVER_HTTP
           THEN /\ slotReturn = Returned(Envelope)
                /\ returnCalls = <<>>
           ELSE returnCalls =
                   <<[signal |-> request.callname,
                      data |-> IF Envelope = None THEN Dict({}) ELSE Envelope]>>

(***************************************************************************)
(* The slot registry, checked under RegistrySpec.                          *)
(***************************************************************************)
\* C20: a name has at most one callback in a scope; register_slot makes its
\* callback the one of the name; unregister_slot of an absent name changes
\* nothing; and unregister_slot(callback, name) right after
\* register_slot(callback, name, scope) leaves the name without a callback
\* in the scope of the registration.
C20_SlotRegistry ==
    /\ \A r1, r2 \in slots :
          (r1.scope = r2.scope /\ r1.signal = r2.signal) => r1 = r2
    /\ slotOp.op = "register_slot"
          => SlotsOf(slots, slotOp.scope, slotOp.name) =
                {[scope |-> slotOp.scope, signal |-> slotOp.name,
                  callback |-> slotOp.callback]}
    /\ (slotOp.op = "unregister_slot" /\ slotOp.absent) => ~slotOp.changed
    /\ (slotOp.op = "unregister_slot" /\ slotOp.prevOp = "register_slot"
          /\ slotOp.prevName = slotOp.name
          /\ slotOp.prevCallback = slotOp.callback)
          => SlotsOf(slots, slotOp.prevScope, slotOp.name) = {}

(***************************************************************************)
(* The reply on the signal transport, checked under TwoProcessSpec.        *)
(***************************************************************************)
\* a call made over signals to a registered slot has been handled by it
SignalCallHandled ==
    /\ pc \in {"handled", "done"}
    /\ request.via = "signal"
    /\ serviceUp

\* C21: a make_call over signals to a slot registered through
\* EnvelopeIPCReturnCall, with g.IPC_OVER_HTTP false in the service too,
\* gets exactly one return call tagged with the name of the call, whatever
\* the callee did, and eventually ends without the timeout; when the
\* service evaluates g.IPC_OVER_HTTP as true no return call is issued and
\* the call ends with the timeout error.
C21_SignalReply ==
    /\ []((SignalCallHandled /\ ~SERVICE_IPC_OVER_HTTP)
            => /\ Len(returnCalls) = 1
               /\ returnCalls[1].signal = request.callname
               /\ returnCalls[1].data # None
               /\ pc = "done" => /\ ~timedOut
                                 /\ callerOutcome # GenericTimeout)
    /\ []((SignalCallHandled /\ SERVICE_IPC_OVER_HTTP)
            => /\ returnCalls = <<>>
               /\ pc = "done" => /\ timedOut
                                 /\ callerOutcome = GenericTimeout)
    /\ (pc = "sent" /\ request.via = "signal" /\ serviceUp
          /\ ~SERVICE_IPC_OVER_HTTP)
          ~> (pc = "done" /\ ~timedOut /\ Len(returnCalls) = 1)

C21_Witness ==
    /\ pc = "done"
    /\ request.via = "signal"
    /\ serviceUp
    /\ ~SERVICE_IPC_OVER_HTTP
    /\ calleeOutcome = Returned(None)
    /\ returnCalls = <<[signal |-> request.callname, data |-> Dict({})]>>
    /\ callerOutcome = Returned(Dict({}))


====
